---- MODULE Spec2Model ----
(***************************************************************************)
(* Verification model of the IPP client utilities:                         *)
(*   - do_print            (src/src/util.rs)                               *)
(*   - the multi-document example workflow                                 *)
(*                         (src/ipp-client/examples/multi-doc.rs)          *)
(*   - the operation builders (src/ipp-proto/src/builder.rs)               *)
(* Each workflow is a state machine whose steps are cut at the points      *)
(* where the code waits for the printer (client.send / block_on).          *)
(***************************************************************************)
EXTENDS Integers, Sequences, FiniteSets, TLC

(***************************************************************************)
(* Bounds of the model                                                     *)
(***************************************************************************)
MaxReasons == 2
MaxOptions == 1
MaxDocs == 3
MaxCalls == 3

(***************************************************************************)
(* IppValue: a tagged union.  Every value is a record with the same        *)
(* fields; i holds the integer payload, s the text payload, l the          *)
(* elements of a ListOf.                                                   *)
(***************************************************************************)
Integer(n) == [tag |-> "Integer", i |-> n, s |-> "", l |-> <<>>]
Enum(e) == [tag |-> "Enum", i |-> e, s |-> "", l |-> <<>>]
Boolean(b) == [tag |-> "Boolean", i |-> IF b THEN 1 ELSE 0, s |-> "", l |-> <<>>]
Keyword(k) == [tag |-> "Keyword", i |-> 0, s |-> k, l |-> <<>>]
TextValue(t) == [tag |-> "String", i |-> 0, s |-> t, l |-> <<>>]
ListOf(v) == [tag |-> "ListOf", i |-> 0, s |-> "", l |-> v]
\* Option::None for an attribute lookup
None == [tag |-> "None", i |-> 0, s |-> "", l |-> <<>>]

\* i32 range
I32Min == (0 - 2147483647) - 1
I32Max == 2147483647

\* PrinterState enum codes
PrinterState_Idle == 3
PrinterState_Processing == 4
PrinterState_Stopped == 5

\* PrinterState::from_i32: Some(state) for a known code, None otherwise
PrinterState_from_i32(e) ==
    IF e \in {PrinterState_Idle, PrinterState_Processing, PrinterState_Stopped}
    THEN e ELSE -1

ERROR_STATES ==
    << "media-jam", "toner-empty", "spool-area-full", "cover-open", "door-open",
       "input-tray-missing", "output-tray-missing", "marker-supply-empty",
       "paused", "shutdown" >>

\* ERROR_STATES.contains(&&k[..])
IsErrorState(k) == \E n \in 1..Len(ERROR_STATES) : ERROR_STATES[n] = k

\* v.iter().filter_map(|e| if let Keyword(k) = e { Some(k) } else { None }).collect()
RECURSIVE FilterKeywords(_)
FilterKeywords(v) ==
    IF v = <<>> THEN <<>>
    ELSE IF Head(v).tag = "Keyword"
         THEN <<Head(v).s>> \o FilterKeywords(Tail(v))
         ELSE FilterKeywords(Tail(v))

\* the match on reasons.value() that computes `keywords`
KeywordsOf(reasons) ==
    CASE reasons.tag = "ListOf" -> FilterKeywords(reasons.l)
      [] reasons.tag = "Keyword" -> <<reasons.s>>
      [] OTHER -> <<>>

\* variant: any known printer state blocks, not only Stopped
IsStopped_AnyState(a) ==
    /\ a # None
    /\ a.tag = "Enum"
    /\ PrinterState_from_i32(a.i) # -1

\* the printer-state test: Some(a), Enum(e), Some(state), state == Stopped
IsStopped(a) ==
    /\ a # None
    /\ a.tag = "Enum"
    /\ PrinterState_from_i32(a.i) # -1
    /\ PrinterState_from_i32(a.i) = PrinterState_Stopped

\* variant: only the first reported keyword is tested against ERROR_STATES
HasErrorReason_FirstOnly(reasons) ==
    /\ reasons # None
    /\ KeywordsOf(reasons) # <<>>
    /\ IsErrorState(KeywordsOf(reasons)[1])

\* the printer-state-reasons test: keywords.iter().any(|k| ERROR_STATES.contains(k))
HasErrorReason(reasons) ==
    /\ reasons # None
    /\ \E n \in 1..Len(KeywordsOf(reasons)) : IsErrorState(KeywordsOf(reasons)[n])

(***************************************************************************)
(* Command-line text.  An argument is a sequence of characters so that     *)
(* arg.split('=') and v.parse::<i32>() are computed, not assumed.          *)
(***************************************************************************)
Digits == <<"0", "1", "2", "3", "4", "5", "6", "7", "8", "9">>
IsDigit(c) == \E d \in 1..10 : Digits[d] = c
DigitValue(c) == (CHOOSE d \in 1..10 : Digits[d] = c) - 1

\* arg.split('='): the segments between the '=' characters
RECURSIVE Split(_, _)
Split(str, cur) ==
    IF str = <<>> THEN <<cur>>
    ELSE IF Head(str) = "=" THEN <<cur>> \o Split(Tail(str), <<>>)
         ELSE Split(Tail(str), Append(cur, Head(str)))

\* the checked accumulation of from_str_radix: positive numbers add each
\* digit, negative numbers subtract it; ok turns FALSE on overflow
RECURSIVE Accumulate(_, _, _)
Accumulate(ds, neg, acc) ==
    IF ds = <<>> THEN [ok |-> TRUE, val |-> acc]
    ELSE LET d == DigitValue(Head(ds))
         IN  IF neg
             THEN IF acc < 0 - (I32Max \div 10) THEN [ok |-> FALSE, val |-> 0]
                  ELSE IF acc * 10 < I32Min + d THEN [ok |-> FALSE, val |-> 0]
                  ELSE Accumulate(Tail(ds), neg, acc * 10 - d)
             ELSE IF acc > I32Max \div 10 THEN [ok |-> FALSE, val |-> 0]
                  ELSE IF acc * 10 > I32Max - d THEN [ok |-> FALSE, val |-> 0]
                  ELSE Accumulate(Tail(ds), neg, acc * 10 + d)

\* v.parse::<i32>(): an optional sign, at least one digit, within the i32 range
ParseI32Body(v) ==
    IF v # <<>> /\ Head(v) \in {"+", "-"} THEN Tail(v) ELSE v
ParseI32Ok(v) ==
    /\ ParseI32Body(v) # <<>>
    /\ \A n \in 1..Len(ParseI32Body(v)) : IsDigit(ParseI32Body(v)[n])
    /\ Accumulate(ParseI32Body(v), Head(v) = "-", 0).ok
ParseI32Value(v) == Accumulate(ParseI32Body(v), Head(v) = "-", 0).val

\* text of a character sequence whose characters are kept as they are
TrueText == <<"t", "r", "u", "e">>
FalseText == <<"f", "a", "l", "s", "e">>

\* value inference of one "-o key=value" option
OptionValue(v) ==
    IF ParseI32Ok(v) THEN [tag |-> "Integer", i |-> ParseI32Value(v), t |-> <<>>]
    ELSE IF v = TrueText \/ v = FalseText
         THEN [tag |-> "Boolean", i |-> IF v = TrueText THEN 1 ELSE 0, t |-> <<>>]
         ELSE [tag |-> "Keyword", i |-> 0, t |-> v]

\* the loop over the option arguments: one add_attribute per "k=v"
RECURSIVE OptionAttributes(_)
OptionAttributes(opts) ==
    IF opts = <<>> THEN <<>>
    ELSE LET kv == Split(Head(opts), <<>>)
         IN  IF Len(kv) >= 2
             THEN <<[name |-> kv[1], value |-> OptionValue(kv[2])]>>
                  \o OptionAttributes(Tail(opts))
             ELSE OptionAttributes(Tail(opts))

\* option arguments given on the command line
OptionArgs ==
    { <<"c", "=", "2">>,
      <<"d", "=", "t", "r", "u", "e">>,
      <<"q", "=", "h", "i">>,
      <<"x">>,
      <<"n", "=", "-", "1", "=", "z">>,
      <<"b", "=", "3", "0", "0", "0", "0", "0", "0", "0", "0", "0">> }

RECURSIVE SeqsUpTo(_, _)
SeqsUpTo(S, n) ==
    IF n = 0 THEN {<<>>}
    ELSE SeqsUpTo(S, n - 1)
         \cup {Append(q, x) : q \in SeqsUpTo(S, n - 1), x \in S}

(***************************************************************************)
(* State.  One program runs per behaviour: `program` says which.           *)
(***************************************************************************)
VARIABLES
    program,    \* "print" (ipputil print), "multi-doc" or "builder"
    pc,         \* position of the running program
    env_USER,   \* the USER environment variable, <<>> when unset
    requests,   \* the operations handed to client.send, in order
    replies,    \* the outcomes of the completed client.send calls, in order
    inflight,   \* indices in requests of the calls not yet completed
    matches,    \* do_print: the parsed command line (ArgMatches)
    result,     \* do_print: the returned Result
    printed,    \* do_print: names of the job attributes printed on stdout
    args,       \* multi-doc: env::args()
    outcome,    \* multi-doc: how main ended
    job_id,     \* multi-doc: the job id taken from the CreateJob response
    idx,        \* multi-doc: the loop index i into args
    builder,    \* builder: the builder value being chained
    operation,  \* builder: the operation build() returned
    calls       \* builder: the builder methods called so far

vars == <<program, pc, env_USER, requests, replies, inflight, matches, result,
          printed, args, outcome, job_id, idx, builder, operation, calls>>
printVars == <<matches, result, printed>>
multiVars == <<args, outcome, job_id, idx>>
builderVars == <<builder, operation, calls>>

\* Option<T>: <<>> is None, <<x>> is Some(x)
Some(x) == <<x>>
IsSome(o) == o # <<>>
Unwrap(o) == o[1]
UnwrapOr(o, d) == IF IsSome(o) THEN o[1] ELSE d

\* the files of the environment that File::open can open
ReadableFiles == {"a.ps", "b.ps"}

\* errors client.send can return
SendErrors == {"HttpError", "StatusError"}

\* the outcome of one client.send call
Failure(e) == [ok |-> FALSE, error |-> e, body |-> <<>>]
Success(body) == [ok |-> TRUE, error |-> "", body |-> body]

\* client.send(operation) is called: the request is on its way
Issue(op) ==
    /\ requests' = Append(requests, op)
    /\ inflight' = inflight \cup {Len(requests) + 1}

\* variant: the call is spawned and not waited for
BlockOn_Detached(calls_in_flight, k) == calls_in_flight

\* the caller blocks on the call it has just made until it completes
BlockOn(calls_in_flight, k) == calls_in_flight \ {k}

\* the pending client.send call completes with `reply`
Complete(reply) ==
    /\ replies' = Append(replies, reply)
    /\ inflight' = BlockOn(inflight, Len(requests))
    /\ UNCHANGED requests

\* the pending call completes with `reply` and the caller goes on to send op
CompleteThenIssue(reply, op) ==
    /\ replies' = Append(replies, reply)
    /\ requests' = Append(requests, op)
    /\ inflight' = BlockOn(inflight, Len(requests)) \cup {Len(requests) + 1}

GetPrinterAttributes_with_attributes(names) ==
    [op |-> "GetPrinterAttributes", attributes |-> names]

(***************************************************************************)
(* Operation builders (builder.rs).  A builder is a record of its fields;  *)
(* every method is an operator from the builder to the builder it returns. *)
(***************************************************************************)
IppAttribute(n, v) == [name |-> n, value |-> v]

\* PrintJob::new(source, user_name, job_name): the operation and its
\* well-known parameters, no extra attribute yet
PrintJob_new(source, user_name, job_name) ==
    [ op |-> "PrintJob", source |-> source, user_name |-> user_name,
      job_name |-> job_name, attributes |-> <<>> ]

\* CreateJob::new(job_name)
CreateJob_new(job_name) ==
    [op |-> "CreateJob", job_name |-> job_name, attributes |-> <<>>]

\* op.add_attribute(attr): pushes, never overwrites by name
add_attribute(op, attr) == [op EXCEPT !.attributes = Append(@, attr)]

\* the attributes an operation carries in its request: the well-known ones
\* the variant sets itself, then the extra ones
WellKnownAttributes(op) ==
    (IF op.op = "PrintJob" /\ IsSome(op.user_name)
     THEN <<IppAttribute("requesting-user-name", TextValue(Unwrap(op.user_name)))>>
     ELSE <<>>)
    \o (IF IsSome(op.job_name)
        THEN <<IppAttribute("job-name", TextValue(Unwrap(op.job_name)))>>
        ELSE <<>>)
OperationAttributes(op) == WellKnownAttributes(op) \o op.attributes

\* self.attributes.into_iter().fold(op, |op, attr| { op.add_attribute(attr); op })
RECURSIVE FoldAttributes(_, _)
FoldAttributes(op, as) ==
    IF as = <<>> THEN op
    ELSE FoldAttributes(add_attribute(op, Head(as)), Tail(as))

PrintJobBuilder_new(source) ==
    [ kind |-> "PrintJobBuilder", source |-> source, user_name |-> <<>>,
      job_title |-> <<>>, attributes |-> <<>> ]
PrintJobBuilder_user_name(b, user_name) == [b EXCEPT !.user_name = Some(user_name)]
PrintJobBuilder_job_title(b, job_title) == [b EXCEPT !.job_title = Some(job_title)]
\* variant: an attribute of the same name is replaced instead of kept
PrintJobBuilder_attribute_Replacing(b, attribute) ==
    [b EXCEPT !.attributes =
        Append(SelectSeq(@, LAMBDA x : x.name # attribute.name), attribute)]
PrintJobBuilder_attribute(b, attribute) ==
    [b EXCEPT !.attributes = Append(@, attribute)]
PrintJobBuilder_build(b) ==
    FoldAttributes(PrintJob_new(b.source, b.user_name, b.job_title), b.attributes)

GetPrinterAttributesBuilder_new ==
    [kind |-> "GetPrinterAttributesBuilder", attributes |-> <<>>]
GetPrinterAttributesBuilder_attribute(b, attribute) ==
    [b EXCEPT !.attributes = Append(@, attribute)]
GetPrinterAttributesBuilder_attributes(b, attributes) ==
    [b EXCEPT !.attributes = @ \o attributes]
GetPrinterAttributesBuilder_build(b) ==
    GetPrinterAttributes_with_attributes(b.attributes)

CreateJobBuilder_new ==
    [kind |-> "CreateJobBuilder", job_name |-> <<>>, attributes |-> <<>>]
CreateJobBuilder_job_name(b, job_name) == [b EXCEPT !.job_name = Some(job_name)]
CreateJobBuilder_attribute(b, attribute) ==
    [b EXCEPT !.attributes = Append(@, attribute)]
CreateJobBuilder_build(b) ==
    FoldAttributes(CreateJob_new(b.job_name), b.attributes)

SendDocumentBuilder_new(id, source) ==
    [ kind |-> "SendDocumentBuilder", job_id |-> id, source |-> source,
      user_name |-> <<>>, is_last |-> TRUE ]
SendDocumentBuilder_user_name(b, user_name) == [b EXCEPT !.user_name = Some(user_name)]
SendDocumentBuilder_last(b, last) == [b EXCEPT !.is_last = last]
\* build(self) -> impl IppOperation: the SendDocument operation made of
\* (self.job_id, self.source, self.user_name, self.is_last)
SendDocumentBuilder_build(b) ==
    [ op |-> "SendDocument", job_id |-> b.job_id, source |-> b.source,
      user_name |-> b.user_name, last |-> b.is_last ]
(***************************************************************************)
(* do_print (util.rs)                                                      *)
(***************************************************************************)
PrinterStateValues ==
    { None, Enum(PrinterState_Idle), Enum(PrinterState_Processing),
      Enum(PrinterState_Stopped), Enum(9), Integer(PrinterState_Stopped) }

ReasonElements ==
    { Keyword("media-jam"), Keyword("shutdown"), Keyword("none"),
      Keyword("media-low"), TextValue("media-jam") }

PrinterStateReasonsValues ==
    {None, Integer(0)}
    \cup {e \in ReasonElements : e.tag = "Keyword"}
    \cup {ListOf(q) : q \in SeqsUpTo(ReasonElements, MaxReasons)}

\* the printer-attributes of a GetPrinterAttributes response, as seen by
\* attrs.get(DelimiterTag::PrinterAttributes, name)
PrecheckResponses ==
    [printer_state : PrinterStateValues, printer_state_reasons : PrinterStateReasonsValues]

\* the job-attributes group of a PrintJob response: absent, or attribute names
JobAttributeGroups == {<<>>, Some(<<>>), Some(<<"job-id", "job-state">>)}

NoMatches ==
    [ nocheckstate |-> FALSE, filename |-> <<>>, username |-> <<>>,
      jobname |-> <<>>, option |-> <<>> ]
NoResult == [kind |-> "none", error |-> "", reasons |-> <<>>]
Ok == [kind |-> "Ok", error |-> "", reasons |-> <<>>]
Err(e) == [kind |-> "Err", error |-> e, reasons |-> <<>>]
PrinterStateError(r) == [kind |-> "Err", error |-> "PrinterStateError", reasons |-> r]

\* PrintJob::new(reader, user_name, job_name) followed by the add_attribute loop
PrintJobOperation(m, user) ==
    [ op |-> "PrintJob",
      source |-> IF IsSome(m.filename) THEN Unwrap(m.filename) ELSE "stdin",
      user_name |-> UnwrapOr(m.username, UnwrapOr(user, "")),
      job_name |-> m.jobname,
      attributes |-> OptionAttributes(m.option) ]

PrintIdle ==
    /\ matches = NoMatches
    /\ result = NoResult
    /\ printed = <<>>

PrintInit ==
    /\ program = "print"
    /\ pc = "start"
    /\ matches \in [ nocheckstate : BOOLEAN,
                     filename : {<<>>, Some("a.ps"), Some("gone.ps")},
                     username : {<<>>, Some("alice")},
                     jobname : {<<>>, Some("report")},
                     option : SeqsUpTo(OptionArgs, MaxOptions) ]
    /\ result = NoResult
    /\ printed = <<>>

\* lines 50-53: stdin, or a file that File::open opens
FileOpens(m) ==
    IF IsSome(m.filename) THEN Unwrap(m.filename) \in ReadableFiles ELSE TRUE

\* lines 50-53: File::open(filename)? fails
DoPrint_OpenFails ==
    /\ program = "print" /\ pc = "start"
    /\ ~FileOpens(matches)
    /\ result' = Err("IOError")
    /\ pc' = "done"
    /\ UNCHANGED <<program, env_USER, requests, replies, inflight, matches, printed>>
    /\ UNCHANGED <<multiVars, builderVars>>

\* variant: the --no-check-state flag is ignored
ChecksState_Always(m) == TRUE

\* line 57: the precheck runs unless --no-check-state is given
ChecksState(m) == ~m.nocheckstate

\* lines 50-60: the state check is enabled, GetPrinterAttributes is sent
DoPrint_SendPrecheck ==
    /\ program = "print" /\ pc = "start"
    /\ FileOpens(matches)
    /\ ChecksState(matches)
    /\ Issue(GetPrinterAttributes_with_attributes(
                 <<"printer-state", "printer-state-reasons">>))
    /\ pc' = "precheck"
    /\ UNCHANGED <<program, env_USER, replies, matches, result, printed>>
    /\ UNCHANGED <<multiVars, builderVars>>

\* line 60: client.send(operation)? fails
DoPrint_PrecheckFails ==
    /\ program = "print" /\ pc = "precheck"
    /\ \E e \in SendErrors :
          /\ Complete(Failure(e))
          /\ result' = Err(e)
    /\ pc' = "done"
    /\ UNCHANGED <<program, env_USER, matches, printed>>
    /\ UNCHANGED <<multiVars, builderVars>>

\* variant: the error keeps only the keywords found in ERROR_STATES
BlockedError_OffendingOnly(a) ==
    IF IsStopped(a.printer_state)
    THEN [kind |-> "Err", error |-> "PrinterStateError", reasons |-> <<"stopped">>]
    ELSE [ kind |-> "Err", error |-> "PrinterStateError",
           reasons |-> SelectSeq(KeywordsOf(a.printer_state_reasons), IsErrorState) ]

\* lines 62-71 and 73-91: the outcome of the state check on a response
Blocked(a) == IsStopped(a.printer_state) \/ HasErrorReason(a.printer_state_reasons)
BlockedError(a) ==
    IF IsStopped(a.printer_state)
    THEN PrinterStateError(<<"stopped">>)
    ELSE PrinterStateError(KeywordsOf(a.printer_state_reasons))

\* lines 60-91: the response arrives and the printer is stopped or in error
DoPrint_PrecheckBlocked ==
    /\ program = "print" /\ pc = "precheck"
    /\ \E a \in PrecheckResponses :
          /\ Blocked(a)
          /\ Complete(Success(a))
          /\ result' = BlockedError(a)
    /\ pc' = "done"
    /\ UNCHANGED <<program, env_USER, matches, printed>>
    /\ UNCHANGED <<multiVars, builderVars>>

\* lines 60-118: the response arrives, the state check passes, the PrintJob
\* operation is built and sent
DoPrint_PrecheckReady ==
    /\ program = "print" /\ pc = "precheck"
    /\ \E a \in PrecheckResponses :
          /\ ~Blocked(a)
          /\ CompleteThenIssue(Success(a), PrintJobOperation(matches, env_USER))
    /\ pc' = "printjob"
    /\ UNCHANGED <<program, env_USER, matches, result, printed>>
    /\ UNCHANGED <<multiVars, builderVars>>

\* lines 50-57, 94-118: the state check is skipped, PrintJob is sent at once
DoPrint_SendPrintJob ==
    /\ program = "print" /\ pc = "start"
    /\ FileOpens(matches)
    /\ ~ChecksState(matches)
    /\ Issue(PrintJobOperation(matches, env_USER))
    /\ pc' = "printjob"
    /\ UNCHANGED <<program, env_USER, replies, matches, result, printed>>
    /\ UNCHANGED <<multiVars, builderVars>>

\* line 118: client.send(operation)? fails
DoPrint_PrintJobFails ==
    /\ program = "print" /\ pc = "printjob"
    /\ \E e \in SendErrors :
          /\ Complete(Failure(e))
          /\ result' = Err(e)
    /\ pc' = "done"
    /\ UNCHANGED <<program, env_USER, matches, printed>>
    /\ UNCHANGED <<multiVars, builderVars>>

\* lines 118-125: the job attributes are printed and Ok(()) is returned
DoPrint_PrintJobSucceeds ==
    /\ program = "print" /\ pc = "printjob"
    /\ \E g \in JobAttributeGroups :
          /\ Complete(Success(g))
          /\ printed' = IF IsSome(g) THEN Unwrap(g) ELSE <<>>
    /\ result' = Ok
    /\ pc' = "done"
    /\ UNCHANGED <<program, env_USER, matches>>
    /\ UNCHANGED <<multiVars, builderVars>>

PrintNext ==
    \/ DoPrint_OpenFails
    \/ DoPrint_SendPrecheck
    \/ DoPrint_PrecheckFails
    \/ DoPrint_PrecheckBlocked
    \/ DoPrint_PrecheckReady
    \/ DoPrint_SendPrintJob
    \/ DoPrint_PrintJobFails
    \/ DoPrint_PrintJobSucceeds

(***************************************************************************)
(* The multi-document example (multi-doc.rs)                               *)
(***************************************************************************)
\* Operation enum codes
Operation_PrintJob == 2
Operation_CreateJob == 5
Operation_SendDocument == 6
Operation_GetPrinterAttributes == 11

\* an attribute group of a response
Group(tag, attributes) == [tag |-> tag, attributes |-> attributes]

\* attrs.groups_of(tag): the groups with that tag, in response order
groups_of(response, tag) == SelectSeq(response, LAMBDA g : g.tag = tag)

\* g.attributes().get(name): the attribute stored under name, if any
RECURSIVE GetAttribute(_, _)
GetAttribute(attributes, name) ==
    IF attributes = <<>> THEN <<>>
    ELSE IF IsSome(GetAttribute(Tail(attributes), name))
         THEN GetAttribute(Tail(attributes), name)
         ELSE IF Head(attributes).name = name THEN Some(Head(attributes)) ELSE <<>>

\* attrs.groups_of(tag).get(0).and_then(|g| g.attributes().get(name))
FirstGroupAttribute(response, tag, name) ==
    IF groups_of(response, tag) = <<>> THEN <<>>
    ELSE GetAttribute(groups_of(response, tag)[1].attributes, name)

\* value.into_iter(): the elements of a ListOf, any other value once
ValueIter(v) == IF v.tag = "ListOf" THEN v.l ELSE <<v>>

supports_multi_doc(v) ==
    IF v.tag = "Enum"
    THEN v.i = Operation_CreateJob \/ v.i = Operation_SendDocument
    ELSE FALSE

\* ops_attr.value().into_iter().any(supports_multi_doc)
AnySupportsMultiDoc(value) ==
    \E n \in 1..Len(ValueIter(value)) : supports_multi_doc(ValueIter(value)[n])

DocFiles == {"a.ps", "b.ps", "gone.ps"}
JobIds == {0 - 1, 0, 1, 7}

OperationsSupportedValues ==
    { Enum(Operation_CreateJob), Enum(Operation_SendDocument),
      Enum(Operation_PrintJob), Keyword("none"),
      ListOf(<<Enum(Operation_PrintJob), Enum(Operation_CreateJob),
               Enum(Operation_SendDocument)>>),
      ListOf(<<Enum(Operation_PrintJob), Enum(Operation_CreateJob)>>),
      ListOf(<<Enum(Operation_PrintJob), Enum(Operation_GetPrinterAttributes)>>),
      ListOf(<<Integer(Operation_CreateJob), Integer(Operation_SendDocument)>>) }

GetAttributesResponses ==
    { <<>>,
      <<Group("printer-attributes", <<>>)>>,
      <<Group("job-attributes",
              <<IppAttribute("operations-supported", Enum(Operation_CreateJob))>>)>> }
    \cup { <<Group("printer-attributes", <<IppAttribute("operations-supported", v)>>)>> :
              v \in OperationsSupportedValues }

JobIdValues == {Integer(j) : j \in JobIds} \cup {Enum(1), Keyword("1")}

CreateJobResponses ==
    { <<>>,
      <<Group("job-attributes", <<>>)>>,
      <<Group("job-attributes", <<IppAttribute("job-state", Enum(3))>>)>>,
      <<Group("printer-attributes", <<IppAttribute("job-id", Integer(1))>>)>> }
    \cup { <<Group("operation-attributes", <<>>),
             Group("job-attributes", <<IppAttribute("job-id", v)>>)>> :
              v \in JobIdValues }

SendDocumentResponses ==
    { <<>>,
      <<Group("job-attributes", <<IppAttribute("job-state", Enum(5))>>)>> }

\* Rust's args[k]; the model's sequence starts at 1
Arg(k) == args[k + 1]

\* variant: off by one, no document is ever the last
IsLast_OffByOne(i) == i >= Len(args)

\* line 70
IsLast(i) == i >= Len(args) - 1

MultiIdle ==
    /\ args = <<>>
    /\ outcome = "none"
    /\ job_id = 0
    /\ idx = 0

MultiInit ==
    /\ program = "multi-doc"
    /\ pc = "start"
    /\ args \in {<<"multi-doc">> \o q : q \in SeqsUpTo({"ipp://printer"}, 1)}
           \cup {<<"multi-doc", "ipp://printer">> \o q :
                    q \in SeqsUpTo(DocFiles, MaxDocs) \ {<<>>}}
    /\ outcome = "running"
    /\ job_id = 0
    /\ idx = 0

\* lines 37-39
get_op ==
    GetPrinterAttributesBuilder_build(
        GetPrinterAttributesBuilder_attribute(GetPrinterAttributesBuilder_new,
                                              "operations-supported"))

\* line 53
create_op == CreateJobBuilder_build(CreateJobBuilder_job_name(CreateJobBuilder_new, "multi-doc"))

\* lines 76-79
send_op(id, f, last) ==
    SendDocumentBuilder_build(
        SendDocumentBuilder_last(
            SendDocumentBuilder_user_name(SendDocumentBuilder_new(id, f),
                                          UnwrapOr(env_USER, "")),
            last))

\* lines 25-28: too few arguments, usage and exit(1)
Main_Usage ==
    /\ program = "multi-doc" /\ pc = "start"
    /\ Len(args) < 3
    /\ outcome' = "exit1"
    /\ pc' = "exit"
    /\ UNCHANGED <<program, env_USER, requests, replies, inflight, args, job_id, idx>>
    /\ UNCHANGED <<printVars, builderVars>>

\* lines 30-40: the capability query is sent
Main_SendGetAttributes ==
    /\ program = "multi-doc" /\ pc = "start"
    /\ Len(args) >= 3
    /\ Issue(get_op)
    /\ pc' = "get-attributes"
    /\ UNCHANGED <<program, env_USER, replies, multiVars>>
    /\ UNCHANGED <<printVars, builderVars>>

\* line 40: block_on(client.send(get_op)).unwrap() panics on an error
Main_GetAttributesFails ==
    /\ program = "multi-doc" /\ pc = "get-attributes"
    /\ \E e \in SendErrors : Complete(Failure(e))
    /\ outcome' = "panic"
    /\ pc' = "exit"
    /\ UNCHANGED <<program, env_USER, args, job_id, idx>>
    /\ UNCHANGED <<printVars, builderVars>>

ops_attr(response) ==
    FirstGroupAttribute(response, "printer-attributes", "operations-supported")

\* lines 41-45: no printer-attributes group or no operations-supported in it
Main_GetAttributesMalformed ==
    /\ program = "multi-doc" /\ pc = "get-attributes"
    /\ \E r \in GetAttributesResponses :
          /\ ~IsSome(ops_attr(r))
          /\ Complete(Success(r))
    /\ outcome' = "panic"
    /\ pc' = "exit"
    /\ UNCHANGED <<program, env_USER, args, job_id, idx>>
    /\ UNCHANGED <<printVars, builderVars>>

\* lines 47-50: the printer does not support create/send, exit(2)
Main_NotSupported ==
    /\ program = "multi-doc" /\ pc = "get-attributes"
    /\ \E r \in GetAttributesResponses :
          /\ IsSome(ops_attr(r))
          /\ ~AnySupportsMultiDoc(Unwrap(ops_attr(r)).value)
          /\ Complete(Success(r))
    /\ outcome' = "exit2"
    /\ pc' = "exit"
    /\ UNCHANGED <<program, env_USER, args, job_id, idx>>
    /\ UNCHANGED <<printVars, builderVars>>

\* lines 41-54: the capability test passes, CreateJob is sent
Main_SendCreateJob ==
    /\ program = "multi-doc" /\ pc = "get-attributes"
    /\ \E r \in GetAttributesResponses :
          /\ IsSome(ops_attr(r))
          /\ AnySupportsMultiDoc(Unwrap(ops_attr(r)).value)
          /\ CompleteThenIssue(Success(r), create_op)
    /\ pc' = "create-job"
    /\ UNCHANGED <<program, env_USER, multiVars>>
    /\ UNCHANGED <<printVars, builderVars>>

\* line 54: block_on(client.send(create_op)).unwrap() panics on an error
Main_CreateJobFails ==
    /\ program = "multi-doc" /\ pc = "create-job"
    /\ \E e \in SendErrors : Complete(Failure(e))
    /\ outcome' = "panic"
    /\ pc' = "exit"
    /\ UNCHANGED <<program, env_USER, args, job_id, idx>>
    /\ UNCHANGED <<printVars, builderVars>>

\* lines 55-59: the job-id attribute of the first job-attributes group
job_id_attr(response) == FirstGroupAttribute(response, "job-attributes", "job-id")

\* variant: an Enum job-id is accepted as well
HasIntegerJobId_OrEnum(response) ==
    /\ IsSome(job_id_attr(response))
    /\ Unwrap(job_id_attr(response)).value.tag \in {"Integer", "Enum"}

\* lines 55-64: the response holds an Integer job-id
HasIntegerJobId(response) ==
    /\ IsSome(job_id_attr(response))
    /\ Unwrap(job_id_attr(response)).value.tag = "Integer"

\* lines 55-64: unwrap() on None or panic!("invalid value")
Main_CreateJobMalformed ==
    /\ program = "multi-doc" /\ pc = "create-job"
    /\ \E r \in CreateJobResponses :
          /\ ~HasIntegerJobId(r)
          /\ Complete(Success(r))
    /\ outcome' = "panic"
    /\ pc' = "exit"
    /\ UNCHANGED <<program, env_USER, args, job_id, idx>>
    /\ UNCHANGED <<printVars, builderVars>>

\* lines 55-67: the job id is taken and the loop starts at the first file
Main_JobCreated ==
    /\ program = "multi-doc" /\ pc = "create-job"
    /\ \E r \in CreateJobResponses :
          /\ HasIntegerJobId(r)
          /\ Complete(Success(r))
          /\ job_id' = Unwrap(job_id_attr(r)).value.i
    /\ idx' = 2
    /\ pc' = "open"
    /\ UNCHANGED <<program, env_USER, args, outcome>>
    /\ UNCHANGED <<printVars, builderVars>>

\* lines 73-74, 89: File::open fails, block_on(fut).unwrap() panics
Main_OpenFails ==
    /\ program = "multi-doc" /\ pc = "open"
    /\ Arg(idx) \notin ReadableFiles
    /\ outcome' = "panic"
    /\ pc' = "exit"
    /\ UNCHANGED <<program, env_USER, requests, replies, inflight, args, job_id, idx>>
    /\ UNCHANGED <<printVars, builderVars>>

\* lines 67-81: the file opens, SendDocument is built and sent
Main_SendDocument ==
    /\ program = "multi-doc" /\ pc = "open"
    /\ Arg(idx) \in ReadableFiles
    /\ Issue(send_op(job_id, Arg(idx), IsLast(idx)))
    /\ pc' = "send-document"
    /\ UNCHANGED <<program, env_USER, replies, multiVars>>
    /\ UNCHANGED <<printVars, builderVars>>

\* variant: the error of a SendDocument call is dropped and the loop goes on
Main_SendDocumentFails_Ignored ==
    /\ program = "multi-doc" /\ pc = "send-document"
    /\ \E e \in SendErrors : Complete(Failure(e))
    /\ idx' = idx + 1
    /\ IF idx + 1 < Len(args)
       THEN pc' = "open" /\ outcome' = outcome
       ELSE pc' = "exit" /\ outcome' = "done"
    /\ UNCHANGED <<program, env_USER, args, job_id>>
    /\ UNCHANGED <<printVars, builderVars>>

\* lines 81, 89: client.send(send_op) fails, block_on(fut).unwrap() panics
Main_SendDocumentFails ==
    /\ program = "multi-doc" /\ pc = "send-document"
    /\ \E e \in SendErrors : Complete(Failure(e))
    /\ outcome' = "panic"
    /\ pc' = "exit"
    /\ UNCHANGED <<program, env_USER, args, job_id, idx>>
    /\ UNCHANGED <<printVars, builderVars>>

\* line 82: groups_of(JobAttributes)[0] on a response without such a group
Main_SendDocumentMalformed ==
    /\ program = "multi-doc" /\ pc = "send-document"
    /\ \E r \in SendDocumentResponses :
          /\ groups_of(r, "job-attributes") = <<>>
          /\ Complete(Success(r))
    /\ outcome' = "panic"
    /\ pc' = "exit"
    /\ UNCHANGED <<program, env_USER, args, job_id, idx>>
    /\ UNCHANGED <<printVars, builderVars>>

\* lines 67, 81-90: the document is accepted, the loop moves to the next
\* file or ends
Main_DocumentSent ==
    /\ program = "multi-doc" /\ pc = "send-document"
    /\ \E r \in SendDocumentResponses :
          /\ groups_of(r, "job-attributes") # <<>>
          /\ Complete(Success(r))
    /\ idx' = idx + 1
    /\ IF idx + 1 < Len(args)
       THEN pc' = "open" /\ outcome' = outcome
       ELSE pc' = "exit" /\ outcome' = "done"
    /\ UNCHANGED <<program, env_USER, args, job_id>>
    /\ UNCHANGED <<printVars, builderVars>>

MultiNext ==
    \/ Main_Usage
    \/ Main_SendGetAttributes
    \/ Main_GetAttributesFails
    \/ Main_GetAttributesMalformed
    \/ Main_NotSupported
    \/ Main_SendCreateJob
    \/ Main_CreateJobFails
    \/ Main_CreateJobMalformed
    \/ Main_JobCreated
    \/ Main_OpenFails
    \/ Main_SendDocument
    \/ Main_SendDocumentFails
    \/ Main_SendDocumentMalformed
    \/ Main_DocumentSent

(***************************************************************************)
(* A caller chaining builder methods (builder.rs)                          *)
(***************************************************************************)
NoBuilder == [kind |-> "none"]
NoOperation == [op |-> "none"]
Call(method, arg) == [method |-> method, arg |-> arg]

UserNames == {"alice", "bob"}
JobTitles == {"report", "draft"}
ExtraAttributes ==
    { IppAttribute("copies", Integer(1)), IppAttribute("copies", Integer(2)),
      IppAttribute("job-name", TextValue("other")) }
RequestedNames == {"printer-state", "operations-supported"}
RequestedLists == {<<>>, <<"printer-state", "printer-state-reasons">>}

BuilderIdle ==
    /\ builder = NoBuilder
    /\ operation = NoOperation
    /\ calls = <<>>

BuilderInit ==
    /\ program = "builder"
    /\ pc = "new"
    /\ BuilderIdle

\* a constructor of IppOperationBuilder returns the builder b
Construct(method, arg, b) ==
    /\ builder' = b
    /\ calls' = <<Call(method, arg)>>
    /\ pc' = "chain"
    /\ UNCHANGED <<program, env_USER, requests, replies, inflight, operation>>
    /\ UNCHANGED <<printVars, multiVars>>

\* a builder of the given kind is held and can take one more call
Holds(kind) ==
    /\ program = "builder" /\ pc = "chain"
    /\ builder.kind = kind

\* a fluent setter returns the builder b
Chain(method, arg, b) ==
    /\ builder' = b
    /\ calls' = Append(calls, Call(method, arg))
    /\ UNCHANGED <<program, pc, env_USER, requests, replies, inflight, operation>>
    /\ UNCHANGED <<printVars, multiVars>>

\* build(self) consumes the builder and returns the operation op
Build(op) ==
    /\ operation' = op
    /\ builder' = NoBuilder
    /\ calls' = Append(calls, Call("build", ""))
    /\ pc' = "built"
    /\ UNCHANGED <<program, env_USER, requests, replies, inflight>>
    /\ UNCHANGED <<printVars, multiVars>>

IppOperationBuilder_print_job ==
    /\ program = "builder" /\ pc = "new"
    /\ \E source \in ReadableFiles :
          Construct("print_job", source, PrintJobBuilder_new(source))

IppOperationBuilder_get_printer_attributes ==
    /\ program = "builder" /\ pc = "new"
    /\ Construct("get_printer_attributes", "", GetPrinterAttributesBuilder_new)

IppOperationBuilder_create_job ==
    /\ program = "builder" /\ pc = "new"
    /\ Construct("create_job", "", CreateJobBuilder_new)

IppOperationBuilder_send_document ==
    /\ program = "builder" /\ pc = "new"
    /\ \E id \in JobIds, source \in ReadableFiles :
          Construct("send_document", id, SendDocumentBuilder_new(id, source))

PrintJob_user_name ==
    /\ Holds("PrintJobBuilder") /\ Len(calls) <= MaxCalls
    /\ \E u \in UserNames :
          Chain("user_name", u, PrintJobBuilder_user_name(builder, u))

PrintJob_job_title ==
    /\ Holds("PrintJobBuilder") /\ Len(calls) <= MaxCalls
    /\ \E t \in JobTitles :
          Chain("job_title", t, PrintJobBuilder_job_title(builder, t))

PrintJob_attribute ==
    /\ Holds("PrintJobBuilder") /\ Len(calls) <= MaxCalls
    /\ \E a \in ExtraAttributes :
          Chain("attribute", a, PrintJobBuilder_attribute(builder, a))

PrintJob_build ==
    /\ Holds("PrintJobBuilder")
    /\ Build(PrintJobBuilder_build(builder))

GetPrinterAttributes_attribute ==
    /\ Holds("GetPrinterAttributesBuilder") /\ Len(calls) <= MaxCalls
    /\ \E n \in RequestedNames :
          Chain("attribute", n, GetPrinterAttributesBuilder_attribute(builder, n))

GetPrinterAttributes_attributes ==
    /\ Holds("GetPrinterAttributesBuilder") /\ Len(calls) <= MaxCalls
    /\ \E ns \in RequestedLists :
          Chain("attributes", ns, GetPrinterAttributesBuilder_attributes(builder, ns))

GetPrinterAttributes_build ==
    /\ Holds("GetPrinterAttributesBuilder")
    /\ Build(GetPrinterAttributesBuilder_build(builder))

CreateJob_job_name ==
    /\ Holds("CreateJobBuilder") /\ Len(calls) <= MaxCalls
    /\ \E t \in JobTitles :
          Chain("job_name", t, CreateJobBuilder_job_name(builder, t))

CreateJob_attribute ==
    /\ Holds("CreateJobBuilder") /\ Len(calls) <= MaxCalls
    /\ \E a \in ExtraAttributes :
          Chain("attribute", a, CreateJobBuilder_attribute(builder, a))

CreateJob_build ==
    /\ Holds("CreateJobBuilder")
    /\ Build(CreateJobBuilder_build(builder))

SendDocument_user_name ==
    /\ Holds("SendDocumentBuilder") /\ Len(calls) <= MaxCalls
    /\ \E u \in UserNames :
          Chain("user_name", u, SendDocumentBuilder_user_name(builder, u))

SendDocument_last ==
    /\ Holds("SendDocumentBuilder") /\ Len(calls) <= MaxCalls
    /\ \E l \in BOOLEAN :
          Chain("last", l, SendDocumentBuilder_last(builder, l))

SendDocument_build ==
    /\ Holds("SendDocumentBuilder")
    /\ Build(SendDocumentBuilder_build(builder))

BuilderNext ==
    \/ IppOperationBuilder_print_job
    \/ IppOperationBuilder_get_printer_attributes
    \/ IppOperationBuilder_create_job
    \/ IppOperationBuilder_send_document
    \/ PrintJob_user_name
    \/ PrintJob_job_title
    \/ PrintJob_attribute
    \/ PrintJob_build
    \/ GetPrinterAttributes_attribute
    \/ GetPrinterAttributes_attributes
    \/ GetPrinterAttributes_build
    \/ CreateJob_job_name
    \/ CreateJob_attribute
    \/ CreateJob_build
    \/ SendDocument_user_name
    \/ SendDocument_last
    \/ SendDocument_build

(***************************************************************************)
(* The specification: one of the programs runs, on inputs drawn from the   *)
(* sets above.                                                             *)
(***************************************************************************)
Init ==
    /\ requests = <<>>
    /\ replies = <<>>
    /\ inflight = {}
    /\ \/ PrintInit /\ MultiIdle /\ BuilderIdle /\ env_USER \in {<<>>, Some("root")}
       \/ MultiInit /\ PrintIdle /\ BuilderIdle /\ env_USER \in {<<>>, Some("root")}
       \/ BuilderInit /\ PrintIdle /\ MultiIdle /\ env_USER = <<>>

Next == PrintNext \/ MultiNext \/ BuilderNext

Spec == Init /\ [][Next]_vars

(***************************************************************************)
(* Properties                                                              *)
(***************************************************************************)
\* the deny-list of state-reason keywords, as the specification lists it
DenyList ==
    { "media-jam", "toner-empty", "spool-area-full", "cover-open", "door-open",
      "input-tray-missing", "output-tray-missing", "marker-supply-empty",
      "paused", "shutdown" }

\* do_print ran with the state check and its GetPrinterAttributes call succeeded
PrecheckAnswered ==
    /\ program = "print"
    /\ ~matches.nocheckstate
    /\ Len(replies) >= 1
    /\ replies[1].ok

\* the response reports printer-state = stopped
ReportsStopped(a) == a.printer_state = Enum(PrinterState_Stopped)

\* the keyword values the response reports in printer-state-reasons, in order
ReportedKeywords(a) ==
    LET r == a.printer_state_reasons
        ks == SelectSeq(r.l, LAMBDA e : e.tag = "Keyword")
    IN  IF r.tag = "Keyword" THEN <<r.s>>
        ELSE IF r.tag = "ListOf" THEN [n \in 1..Len(ks) |-> ks[n].s]
        ELSE <<>>

\* the response reports a deny-listed state-reason keyword
ReportsDeniedReason(a) ==
    \E n \in 1..Len(ReportedKeywords(a)) : ReportedKeywords(a)[n] \in DenyList

IssuedOps == {requests[k].op : k \in 1..Len(requests)}

\* C1: with the state check enabled, a response reporting printer-state =
\* stopped or a deny-listed printer-state-reasons keyword makes do_print
\* return a printer-state error, and no print-job, create-job or
\* send-document request is issued in that run.
C1_BlockedIssuesNoJob ==
    (PrecheckAnswered
        /\ (ReportsStopped(replies[1].body) \/ ReportsDeniedReason(replies[1].body)))
    => /\ pc = "done"
       /\ result.kind = "Err"
       /\ result.error = "PrinterStateError"
       /\ IssuedOps \cap {"PrintJob", "CreateJob", "SendDocument"} = {}

\* a run blocked by a deny-listed reason although the printer is idle
C1_Witness ==
    /\ PrecheckAnswered
    /\ replies[1].body.printer_state = Enum(PrinterState_Idle)
    /\ replies[1].body.printer_state_reasons
           = ListOf(<<Keyword("none"), Keyword("shutdown")>>)
    /\ result.error = "PrinterStateError"

\* the run is blocked because of the reasons, not because of printer-state
BlockedByReasons ==
    /\ PrecheckAnswered
    /\ ~ReportsStopped(replies[1].body)
    /\ ReportsDeniedReason(replies[1].body)

\* C2 (as claimed): when do_print is blocked because of printer-state-reasons
\* the error carries exactly the reported keywords that match the deny-list,
\* so that "media-jam" reported together with keywords that are not
\* deny-listed gives the reasons ["media-jam"].
C2_OnlyOffendingReasons ==
    BlockedByReasons
    => result.reasons
          = SelectSeq(ReportedKeywords(replies[1].body), LAMBDA k : k \in DenyList)

\* C2 (amended): when do_print is blocked because of printer-state-reasons
\* the error carries every reported keyword value, deny-listed or not, in
\* the reported order.
C2_AllReportedKeywords ==
    BlockedByReasons
    => /\ result.error = "PrinterStateError"
       /\ result.reasons = ReportedKeywords(replies[1].body)

\* "media-jam" reported together with a harmless keyword: both are carried
C2_Witness ==
    /\ BlockedByReasons
    /\ replies[1].body.printer_state_reasons
           = ListOf(<<Keyword("media-jam"), Keyword("none")>>)
    /\ result.reasons = <<"media-jam", "none">>

\* the requests of one kind, in the order they were issued
Issued(op) == SelectSeq(requests, LAMBDA r : r.op = op)

\* the position in requests of the first request of a kind
PositionOf(op) == CHOOSE k \in 1..Len(requests) : requests[k].op = op

\* the attributes named name in the job-attributes groups of a response
JobAttributesNamed(response, name) ==
    { a \in UNION { {g.attributes[n] : n \in 1..Len(g.attributes)} :
                      g \in {response[m] : m \in {m \in 1..Len(response) :
                                 response[m].tag = "job-attributes"}} } :
        a.name = name }

\* the number of documents on the command line
DocumentCount == Len(args) - 2

\* C3: in the multi-document workflow CreateJob is issued once, and the
\* SendDocument calls are issued in document order, each with the job id the
\* CreateJob response returned, with last = TRUE for document N only; when
\* every request has succeeded there are exactly N of them.
C3_OneJobDocumentsInOrder ==
    (program = "multi-doc" /\ DocumentCount >= 1)
    => /\ Len(Issued("CreateJob")) <= 1
       /\ Len(Issued("SendDocument")) <= DocumentCount
       /\ \A k \in 1..Len(Issued("SendDocument")) :
             LET d == Issued("SendDocument")[k]
             IN  /\ Len(Issued("CreateJob")) = 1
                 /\ Len(replies) >= PositionOf("CreateJob")
                 /\ \E a \in JobAttributesNamed(replies[PositionOf("CreateJob")].body,
                                                "job-id") :
                        a.value = Integer(d.job_id)
                 /\ d.source = args[k + 2]
                 /\ d.last = (k = DocumentCount)
       /\ outcome = "done"
          => /\ Len(Issued("CreateJob")) = 1
             /\ Len(Issued("SendDocument")) = DocumentCount

\* three documents were sent and the workflow ended normally
C3_Witness ==
    /\ program = "multi-doc"
    /\ outcome = "done"
    /\ DocumentCount = 3
    /\ Len(Issued("SendDocument")) = 3

\* the program has stopped and reported a failure
FailureReported(e) ==
    \/ program = "print" /\ pc = "done" /\ result = Err(e)
    \/ program = "multi-doc" /\ pc = "exit" /\ outcome = "panic"

\* C4: both workflows are fail-fast: a request that failed is the last
\* request the run issues, and the run ends reporting the failure.
C4_FailFast ==
    \A k \in 1..Len(replies) :
        ~replies[k].ok
        => /\ k = Len(requests)
           /\ inflight = {}
           /\ FailureReported(replies[k].error)

\* document 2 of 3 failed: its SendDocument is the last request
C4_Witness ==
    /\ program = "multi-doc"
    /\ DocumentCount = 3
    /\ Len(Issued("SendDocument")) = 2
    /\ Len(replies) = Len(requests)
    /\ ~replies[Len(replies)].ok

\* C5: in the multi-document workflow at most one SendDocument call is in
\* flight, and a call is issued only when every earlier call has completed.
C5_OneSendDocumentInFlight ==
    program = "multi-doc"
    => /\ Cardinality({k \in inflight : requests[k].op = "SendDocument"}) <= 1
       /\ \A k \in inflight : k = Len(requests)
       /\ Len(replies) = Len(requests) - Cardinality(inflight)

\* the second document is in flight and the first has completed
C5_Witness ==
    /\ program = "multi-doc"
    /\ Len(Issued("SendDocument")) = 2
    /\ inflight = {Len(requests)}
    /\ replies[Len(requests) - 1].ok

\* C6: no SendDocument operation with a non-positive job id is produced by
\* the builder or sent.
C6_NoNonPositiveJobId ==
    /\ operation.op = "SendDocument" => operation.job_id > 0
    /\ \A k \in 1..Len(requests) :
          requests[k].op = "SendDocument" => requests[k].job_id > 0

CreateJobAnswered ==
    /\ program = "multi-doc"
    /\ Len(Issued("CreateJob")) = 1
    /\ Len(replies) >= PositionOf("CreateJob")
    /\ replies[PositionOf("CreateJob")].ok

\* the response has no job-attributes group, or no job-id in the first one,
\* or a job-id that is not an Integer
LacksIntegerJobId(response) ==
    LET gs == SelectSeq(response, LAMBDA g : g.tag = "job-attributes")
    IN  \/ gs = <<>>
        \/ /\ gs # <<>>
           /\ \A n \in 1..Len(gs[1].attributes) :
                 gs[1].attributes[n].name = "job-id"
                 => gs[1].attributes[n].value.tag # "Integer"

\* C8: a CreateJob response without an Integer job-id in its job-attributes
\* group ends the multi-document workflow fatally, and no SendDocument
\* request is issued.
C8_NoJobIdIsFatal ==
    (CreateJobAnswered /\ LacksIntegerJobId(replies[PositionOf("CreateJob")].body))
    => /\ pc = "exit"
       /\ outcome = "panic"
       /\ Issued("SendDocument") = <<>>

\* the job-id came back as a keyword
C8_Witness ==
    /\ CreateJobAnswered
    /\ \E a \in JobAttributesNamed(replies[PositionOf("CreateJob")].body, "job-id") :
          a.value = Keyword("1")
    /\ outcome = "panic"

\* the arguments of the calls of one builder method, in call order
ArgumentsOf(method) ==
    LET cs == SelectSeq(calls, LAMBDA c : c.method = method)
    IN  [n \in 1..Len(cs) |-> cs[n].arg]

\* the attribute a well-known setter stands for, from its last call
WellKnownFrom(method, name) ==
    IF ArgumentsOf(method) = <<>> THEN <<>>
    ELSE <<IppAttribute(name,
                        TextValue(ArgumentsOf(method)[Len(ArgumentsOf(method))]))>>

\* C9: the operation built by PrintJobBuilder or CreateJobBuilder carries the
\* well-known attributes followed by the extra attributes a1..ak in call
\* order; nothing is replaced or removed, duplicates are kept.
C9_ExtrasAppendedInCallOrder ==
    (program = "builder" /\ pc = "built" /\ operation.op \in {"PrintJob", "CreateJob"})
    => OperationAttributes(operation)
          = WellKnownFrom("user_name", "requesting-user-name")
            \o WellKnownFrom("job_title", "job-name")
            \o WellKnownFrom("job_name", "job-name")
            \o ArgumentsOf("attribute")

\* a job title, then the extra attribute "job-name" given twice
C9_Witness ==
    /\ program = "builder" /\ pc = "built"
    /\ operation.op = "PrintJob"
    /\ IsSome(operation.job_name)
    /\ operation.attributes
          = << IppAttribute("job-name", TextValue("other")),
               IppAttribute("job-name", TextValue("other")) >>

\* C10: with --no-check-state do_print issues no GetPrinterAttributes request
\* and returns no printer-state error; its only request is the PrintJob.
C10_SkipIssuesOnlyPrintJob ==
    (program = "print" /\ matches.nocheckstate)
    => /\ "GetPrinterAttributes" \notin IssuedOps
       /\ result.error # "PrinterStateError"
       /\ Len(requests) <= 1
       /\ \A k \in 1..Len(requests) : requests[k].op = "PrintJob"
       /\ pc \in {"printjob", "done"} /\ FileOpens(matches) => Len(requests) = 1

\* a run without the state check that printed
C10_Witness ==
    /\ program = "print"
    /\ matches.nocheckstate
    /\ pc = "done"
    /\ result = Ok
    /\ Len(requests) = 1

\* the operation codes a response lists as Enum values in the
\* operations-supported attribute of its printer-attributes groups
SupportedOperationCodes(response) ==
    LET groups == {response[m] : m \in {m \in 1..Len(response) :
                                   response[m].tag = "printer-attributes"}}
        values == UNION { {g.attributes[n].value :
                              n \in {n \in 1..Len(g.attributes) :
                                  g.attributes[n].name = "operations-supported"}} :
                           g \in groups }
        elements == UNION { IF v.tag = "ListOf"
                            THEN {v.l[n] : n \in 1..Len(v.l)}
                            ELSE {v} : v \in values }
    IN  {e.i : e \in {e \in elements : e.tag = "Enum"}}

\* C11: the multi-document workflow issues CreateJob (and any SendDocument)
\* only if the printer's operations-supported attribute contains both the
\* create-job and the send-document operation codes.
C11_CreateJobOnlyIfBothSupported ==
    (program = "multi-doc" /\ IssuedOps \cap {"CreateJob", "SendDocument"} # {})
    => /\ Len(replies) >= 1
       /\ replies[1].ok
       /\ {Operation_CreateJob, Operation_SendDocument}
             \subseteq SupportedOperationCodes(replies[1].body)
====
